---- MODULE Spec2Model ----
(***************************************************************************)
(* Model of guietta's Gui class (src/guietta/guietta.py): construction of  *)
(* the widget grid from a matrix of cell tokens (compact-notation          *)
(* expansion, continuation replication, span computation, registration by  *)
(* normalized text), and the configuration calls names(), events() and     *)
(* import_into().                                                          *)
(*                                                                         *)
(* Strings are sequences of one-character strings so that _normalize and   *)
(* the "append '_'" loop are computed, not assumed.  A widget is a record   *)
(* [k |-> "widget", cls, text, id]; id is the object identity (two widgets *)
(* with the same text are different records).  Rows and columns are        *)
(* 1-based here, 0-based in the source.                                    *)
(***************************************************************************)
EXTENDS Integers, Sequences, FiniteSets, TLC

VARIABLES lists, pc, err, step1, layout, widgets, aliases, conns, obj, call

vars == <<lists, pc, err, step1, layout, widgets, aliases, conns, obj, call>>

\* ------------------------------------------------------------------ bounds

\* Largest number of cells (rows * columns) of a construction matrix.
MaxCells == 4

\* ----------------------------------------------------------------- strings

Str_OK == <<"O", "K">>
Str_OKu == <<"O", "K", "_">>
Str_Bang == <<"!">>
Str_Field == <<"_", "_", "K", "_", "_">>
Str_Half == <<"_", "_", "K">>
Empty == <<>>

\* str.isalnum on the characters used here.
IsAlnum(c) == c \in {"O", "K", "a", "b"}

\* _normalize: keep letters, digits and underscores.
Normalize(x) == SelectSeq(x, LAMBDA c : IsAlnum(c) \/ c = "_")

StartsWithDunder(x) == Len(x) >= 2 /\ x[1] = "_" /\ x[2] = "_"

EndsWithDunder(x) == Len(x) >= 2 /\ x[Len(x)] = "_" /\ x[Len(x) - 1] = "_"

\* ------------------------------------------------------------------- cells

Cell(k, cls, text, id) == [k |-> k, cls |-> cls, text |-> text, id |-> id]

\* The three special classes: _ (QLabel), ___ and I.
Blank == Cell("Blank", "", Empty, 0)
ContinueLeft == Cell("CL", "", Empty, 0)
ContinueUp == Cell("CU", "", Empty, 0)
Specials == {Blank, ContinueLeft, ContinueUp}

\* Python's None.
None == Cell("None", "", Empty, 0)

\* A constructed widget of class cls showing text, with identity id.
Widget(cls, text, id) == Cell("widget", cls, text, id)

\* Raw tokens: a str, and a non-str iterable whose first element is a str.
StrTok(text) == Cell("str", "", text, 0)
SeqTok(text) == Cell("seq", "", text, 0)

IsWidget(x) == x.k = "widget"

\* Widgets the caller built before calling Gui(...): identities below zero.
Button1 == Widget("QPushButton", Str_OK, -1)
Check1 == Widget("QCheckBox", Str_Bang, -2)

\* The cell tokens construction matrices are drawn from.
Tokens ==
    { Blank, ContinueLeft, ContinueUp,
      StrTok(Str_OK), StrTok(Str_Bang), StrTok(Str_Field), StrTok(Str_Half),
      SeqTok(Str_OKu), Button1, Check1 }

\* ---------------------------------------------------------------- matrices

NRows(m) == Len(m)
NCols(m) == Len(m[1])

\* The shapes of at most n cells, and the matrices of these shapes over S.
Shapes(n) == { s \in (1..n) \X (1..n) : s[1] * s[2] <= n }

Matrices(S, n) == UNION { [1..s[1] -> [1..s[2] -> S]] : s \in Shapes(n) }

\* Cells of an nr x nc matrix in row-major order, numbered 1..nr*nc.
RowOf(n, nc) == ((n - 1) \div nc) + 1
ColOf(n, nc) == ((n - 1) % nc) + 1

\* Python list indexing with index p (0-based, may be -1), as a 1-based index.
PyIndex(p, n) == IF p < 0 THEN p + n + 1 ELSE p + 1

\* --------------------------------------------------- compact notation

CompactLabel(x, id) ==
    IF x.k = "str" /\ ~StartsWithDunder(x.text)
    THEN Widget("QLabel", x.text, id) ELSE x

CompactButton(x, id) ==
    IF x.k = "seq" THEN Widget("QPushButton", x.text, id) ELSE x

CompactLineedit(x, id) ==
    IF x.k = "str" /\ StartsWithDunder(x.text) /\ EndsWithDunder(x.text)
    THEN Widget("QLineEdit", x.text, id) ELSE x

ConvertCompatToWidget(x, id) ==
    CompactLineedit(CompactButton(CompactLabel(x, id), id), id)

\* _check_widget passes x (it raises ValueError otherwise).
CheckWidgetOk(x) == IsWidget(x) \/ x \in Specials

\* _filter_lol(lists, _convert_compat_to_widget); a widget made in cell
\* (i, j) gets the identity of that cell.
Converted(m) ==
    [i \in 1..NRows(m) |-> [j \in 1..NCols(m) |->
        ConvertCompatToWidget(m[i][j], (i - 1) * NCols(m) + j)]]

\* ------------------------------------------------------------------ pass 1

\* The value stored in _step1[i][j] given the matrix filled so far.
Step1Value(s, m, i, j) ==
    LET element == m[i][j] IN
    IF element = Blank
    THEN Widget("QLabel", Empty, (i - 1) * NCols(m) + j)
    ELSE IF element = ContinueLeft
    THEN s[i][PyIndex((j - 1) - 1, NCols(m))]
    ELSE IF element = ContinueUp
    THEN s[PyIndex((i - 1) - 1, NRows(m))][j]
    ELSE element

RECURSIVE Pass1(_, _, _)
Pass1(s, m, n) ==
    IF n > NRows(m) * NCols(m) THEN s
    ELSE LET i == RowOf(n, NCols(m))
             j == ColOf(n, NCols(m))
         IN  Pass1([s EXCEPT ![i][j] = Step1Value(s, m, i, j)], m, n + 1)

\* self._step1 after the first loop of __init__.
Step1Of(m) ==
    Pass1([i \in 1..NRows(m) |-> [j \in 1..NCols(m) |-> None]], m, 1)

\* ------------------------------------------------------------------ pass 2

\* RowSpan as if every widget were one row high.
RowSpanOne(s, i, j, element) == 1

\* Number of cells of column j, rows i..nrows, that hold element.
RowSpan(s, i, j, element) ==
    Cardinality({ ii \in i..Len(s) : s[ii][j] = element })

\* ColSpan as if the scan started after the origin (range(j + 1, len(row))).
ColSpanAfterOrigin(s, i, j, element) ==
    Cardinality({ jj \in (j + 1)..Len(s[i]) : s[i][jj] = element })

\* Number of cells of row i, columns j..ncols, that hold element.
ColSpan(s, i, j, element) ==
    Cardinality({ jj \in j..Len(s[i]) : s[i][jj] = element })

Keys(d) == { d[n].name : n \in 1..Len(d) }

\* UniqueName as if the loop were an if: at most one '_' is appended.
UniqueNameOnce(text, d) ==
    IF text \in Keys(d) THEN Append(text, "_") ELSE text

\* while text in self._widgets: text += '_'
RECURSIVE UniqueName(_, _)
UniqueName(text, d) ==
    IF text \in Keys(d) THEN UniqueName(Append(text, "_"), d) ELSE text

\* self._widgets[text] = element, for a key that is not in the dict.
Register(d, element) ==
    Append(d, [name |-> UniqueName(Normalize(element.text), d), value |-> element])

\* The second loop of __init__ from cell n on.  st.err is set, and the loop
\* left, when addWidget is handed None: the toolkit raises TypeError.
RECURSIVE Pass2(_, _, _)
Pass2(st, s, n) ==
    IF n > Len(s) * Len(s[1]) \/ st.err # "" THEN st
    ELSE LET i == RowOf(n, Len(s[1]))
             j == ColOf(n, Len(s[1]))
             element == s[i][j]
         IN  IF element \in st.done THEN Pass2(st, s, n + 1)
             ELSE IF element = None THEN [st EXCEPT !.err = "TypeError"]
             ELSE Pass2([ layout |-> Append(st.layout,
                                      [w |-> element, row |-> i, col |-> j,
                                       rowspan |-> RowSpan(s, i, j, element),
                                       colspan |-> ColSpan(s, i, j, element)]),
                          widgets |-> Register(st.widgets, element),
                          done |-> st.done \cup {element},
                          err |-> "" ], s, n + 1)

Pass2Of(s) ==
    Pass2([layout |-> <<>>, widgets |-> <<>>, done |-> {}, err |-> ""], s, 1)

\* ------------------------------------------------------------ the machine

\* call records the last configuration call: its name, its argument, the
\* error it raised ("" for none) and what it returned.
NoCall == [op |-> "", arg |-> <<>>, err |-> "", ret |-> <<>>]

InitWith(S, n) ==
    /\ lists \in Matrices(S, n)
    /\ pc = "new"
    /\ err = ""
    /\ step1 = <<>>
    /\ layout = <<>>
    /\ widgets = <<>>
    /\ aliases = <<>>
    /\ conns = <<>>
    /\ obj = <<>>
    /\ call = NoCall

Init == InitWith(Tokens, MaxCells)

\* Gui.__init__(*lists)
Construct ==
    /\ pc = "new"
    /\ LET conv == Converted(lists) IN
       IF \E i \in 1..NRows(conv) : \E j \in 1..NCols(conv) :
              ~CheckWidgetOk(conv[i][j])
       THEN /\ pc' = "failed"
            /\ err' = "ValueError"
            /\ UNCHANGED <<step1, layout, widgets>>
       ELSE LET s == Step1Of(conv)
                st == Pass2Of(s)
            IN  /\ step1' = s
                /\ layout' = st.layout
                /\ widgets' = st.widgets
                /\ err' = st.err
                /\ pc' = IF st.err = "" THEN "built" ELSE "failed"
    /\ UNCHANGED <<lists, aliases, conns, obj, call>>

\* ------------------------------------------------------------ placements

\* The rectangle of layout item p holds cell (r, c).
Covers(p, r, c) ==
    /\ p.row <= r /\ r < p.row + p.rowspan
    /\ p.col <= c /\ c < p.col + p.colspan

\* The widgets added to the layout.
Placed == { layout[n].w : n \in 1..Len(layout) }

\* ------------------------------------------------------------ dictionaries

\* A dict is the sequence of its items [name, value] in insertion order.
DictGet(d, k) == d[CHOOSE n \in 1..Len(d) : d[n].name = k].value

\* d[k] = v: a key that is present keeps its place.
DictSet(d, k, v) ==
    IF k \in Keys(d)
    THEN [n \in 1..Len(d) |-> IF d[n].name = k THEN [name |-> k, value |-> v] ELSE d[n]]
    ELSE Append(d, [name |-> k, value |-> v])

\* ------------------------------------------------------------ coordinates

\* QGridLayout.itemAtPosition(row, col).widget(): the first item added whose
\* rectangle holds the cell; None stands for the AttributeError raised when
\* there is no such item.
GetItem(r, c) ==
    LET hits == { n \in 1..Len(layout) : Covers(layout[n], r, c) } IN
    IF hits = {} THEN None
    ELSE layout[CHOOSE n \in hits : \A m \in hits : n <= m].w

\* Matrices with the shape of the construction matrix.
SameShape(S) == [1..NRows(lists) -> [1..NCols(lists) -> S]]

\* ------------------------------------------------------------------- names

\* names_by_widget[item]
NameOf(item) ==
    widgets[CHOOSE n \in 1..Len(widgets) :
                /\ widgets[n].value = item
                /\ \A m \in 1..Len(widgets) : widgets[m].value = item => m <= n].name

\* _check_string passes x.
CheckStringOk(x) == x.k = "str" \/ x \in Specials

\* The loop of names() from cell n on; st.err is set, and the loop left,
\* when a cell has no item.
RECURSIVE NamesLoop(_, _, _)
NamesLoop(st, m, n) ==
    IF n > NRows(m) * NCols(m) \/ st.err # "" THEN st
    ELSE LET i == RowOf(n, NCols(m))
             j == ColOf(n, NCols(m))
             alias == m[i][j]
         IN  IF alias \in Specials THEN NamesLoop(st, m, n + 1)
             ELSE IF GetItem(i, j) = None
             THEN [st EXCEPT !.err = "AttributeError"]
             ELSE NamesLoop([st EXCEPT !.aliases =
                                DictSet(st.aliases, alias.text, NameOf(GetItem(i, j)))],
                            m, n + 1)

\* The cells names() is called with: a marker and two alias strings, one of
\* them spelled like the identifier of a widget showing OK.
Alias_a == <<"a">>
NameTokens == { Blank, StrTok(Str_OK), StrTok(Alias_a) }

\* The matrices names() is called with: those of NameTokens, and one whose
\* cells are no strings.
NameMatrices == SameShape(NameTokens) \cup SameShape({Button1})

\* Gui.names(*m)
Names(m) ==
    /\ pc = "built"
    /\ IF \E i \in 1..NRows(m) : \E j \in 1..NCols(m) : ~CheckStringOk(m[i][j])
       THEN /\ call' = [op |-> "names", arg |-> m, err |-> "ValueError", ret |-> <<>>]
            /\ UNCHANGED aliases
       ELSE LET st == NamesLoop([aliases |-> aliases, err |-> ""], m, 1) IN
            /\ aliases' = st.aliases
            /\ call' = [op |-> "names", arg |-> m, err |-> st.err, ret |-> <<>>]
    /\ UNCHANGED <<lists, pc, err, step1, layout, widgets, conns, obj>>

\* Gui.__getattr__(name); AttributeErrorRaised stands for the raise.
AttributeErrorRaised == Cell("AttributeError", "", Empty, 0)

\* GetAttr as if identifiers were looked up before aliases.
GetAttrIdentifierFirst(name) ==
    IF name \in Keys(widgets) THEN DictGet(widgets, name)
    ELSE IF name \in Keys(aliases) /\ DictGet(aliases, name) \in Keys(widgets)
    THEN DictGet(widgets, DictGet(aliases, name))
    ELSE AttributeErrorRaised

GetAttr(name) ==
    LET name1 == IF name \in Keys(aliases) THEN DictGet(aliases, name) ELSE name IN
    IF name1 \in Keys(widgets) THEN DictGet(widgets, name1) ELSE AttributeErrorRaised

\* ------------------------------------------------------------------ events

\* _default_signals, by class name.
DefaultSignalClasses == {"QPushButton", "QLineEdit"}
DefaultSignal(cls) == IF cls = "QPushButton" THEN "clicked" ELSE "returnPressed"

\* A plain function and a bound method.
Func_f == Cell("function", "", <<"f">>, 0)
Method_m == Cell("method", "", <<"m">>, 0)

\* _bound_method
BoundMethod(slot) == slot.k = "method"

\* _check_callable passes x.
CheckCallableOk(x) == x.k \in {"function", "method"} \/ x \in Specials

\* Connect as if a new connection replaced those the widget already had.
ConnectReplacing(cs, item, slot) ==
    Append(SelectSeq(cs, LAMBDA c : c.w # item),
           [w |-> item, signal |-> DefaultSignal(item.cls), slot |-> slot,
            arg |-> IF slot.k = "method" THEN "none" ELSE "gui"])

\* signal.connect(...): the connection is added after those already made.
\* A bound method is called with no argument, anything else with the Gui.
Connect(cs, item, slot) ==
    Append(cs, [w |-> item, signal |-> DefaultSignal(item.cls), slot |-> slot,
                arg |-> IF BoundMethod(slot) THEN "none" ELSE "gui"])

\* The loop of events() from cell n on.
RECURSIVE EventsLoop(_, _, _)
EventsLoop(st, m, n) ==
    IF n > NRows(m) * NCols(m) \/ st.err # "" THEN st
    ELSE LET i == RowOf(n, NCols(m))
             j == ColOf(n, NCols(m))
             slot == m[i][j]
             item == GetItem(i, j)
         IN  IF slot \in Specials THEN EventsLoop(st, m, n + 1)
             ELSE IF item = None THEN [st EXCEPT !.err = "AttributeError"]
             ELSE IF item.cls \notin DefaultSignalClasses
             THEN [st EXCEPT !.err = "KeyError"]
             ELSE EventsLoop([st EXCEPT !.conns = Connect(st.conns, item, slot)],
                             m, n + 1)

SlotTokens == { Blank, Func_f, Method_m }

\* The matrices events() is called with: those of SlotTokens, and one whose
\* cells are not callable.
SlotMatrices == SameShape(SlotTokens) \cup SameShape({StrTok(Str_OK)})

\* Largest number of connections the model lets events() build up.
MaxConns == 4

\* Gui.events(*m)
Events(m) ==
    /\ pc = "built"
    /\ Len(conns) + NRows(m) * NCols(m) <= MaxConns
    /\ IF \E i \in 1..NRows(m) : \E j \in 1..NCols(m) : ~CheckCallableOk(m[i][j])
       THEN /\ call' = [op |-> "events", arg |-> m, err |-> "ValueError", ret |-> <<>>]
            /\ UNCHANGED conns
       ELSE LET st == EventsLoop([conns |-> conns, err |-> ""], m, 1) IN
            /\ conns' = st.conns
            /\ call' = [op |-> "events", arg |-> m, err |-> st.err, ret |-> <<>>]
    /\ UNCHANGED <<lists, pc, err, step1, layout, widgets, aliases, obj>>

\* The calls one emission of the default signal of widget w makes, in order.
Invoked(w) ==
    LET mine == SelectSeq(conns, LAMBDA c : c.w = w) IN
    [n \in 1..Len(mine) |-> [slot |-> mine[n].slot, arg |-> mine[n].arg]]

\* The toolkit emits the default signal of a placed widget.
Fire(w) ==
    /\ pc = "built"
    /\ w \in Placed /\ w.cls \in DefaultSignalClasses
    /\ call' = [op |-> "fire", arg |-> <<<<w>>>>, err |-> "", ret |-> Invoked(w)]
    /\ UNCHANGED <<lists, pc, err, step1, layout, widgets, aliases, conns, obj>>

\* ------------------------------------------------------------- import_into

\* {**self._widgets, **self._aliases}: the alias values are the identifiers.
RECURSIVE Merge(_, _, _)
Merge(d, a, n) ==
    IF n > Len(a) THEN d
    ELSE Merge(DictSet(d, a[n].name, StrTok(a[n].value)), a, n + 1)

\* The loop of import_into from item n of the merged dict on.
RECURSIVE ImportLoop(_, _, _)
ImportLoop(st, d, n) ==
    IF n > Len(d) \/ st.err # "" THEN st
    ELSE IF d[n].name \in Keys(st.obj)
         THEN [st EXCEPT !.err = "Exception"]
         ELSE ImportLoop([st EXCEPT !.obj = Append(st.obj, d[n])], d, n + 1)

\* An attribute the target object has before the call.
Own == Cell("own", "", Empty, 0)

\* Target objects: no attribute, or one attribute of one of these names.
Targets ==
    {<<>>} \cup { <<[name |-> k, value |-> Own]>> : k \in {Str_OK, Str_OKu, Alias_a} }

\* Gui.import_into(o)
ImportInto(o) ==
    /\ pc = "built"
    /\ LET st == ImportLoop([obj |-> o, err |-> ""], Merge(widgets, aliases, 1), 1) IN
       /\ obj' = st.obj
       /\ call' = [op |-> "import_into", arg |-> o, err |-> st.err, ret |-> <<>>]
    /\ UNCHANGED <<lists, pc, err, step1, layout, widgets, aliases, conns>>

\* ---------------------------------------------------------- specifications

\* Largest number of cells of the grids that names(), events() and
\* import_into() are called on.
MaxCellsConfig == 2
MaxCellsEvents == 2

ConfigTokens == { ContinueLeft, ContinueUp, StrTok(Str_OK), StrTok(Alias_a), Button1 }

EventTokens == { ContinueLeft, StrTok(Str_OK), SeqTok(Str_OKu), Button1 }

NextGrid == Construct

SpecGrid == Init /\ [][NextGrid]_vars

InitNames == InitWith(ConfigTokens, MaxCellsConfig)

NextNames ==
    \/ Construct
    \/ \E m \in NameMatrices : Names(m)

SpecNames == InitNames /\ [][NextNames]_vars

InitEvents == InitWith(EventTokens, MaxCellsEvents)

NextEvents ==
    \/ Construct
    \/ \E m \in SlotMatrices : Events(m)
    \/ \E w \in Placed : Fire(w)

SpecEvents == InitEvents /\ [][NextEvents]_vars

NextImport ==
    \/ Construct
    \/ \E m \in NameMatrices : Names(m)
    \/ \E o \in Targets : ImportInto(o)

SpecImport == InitNames /\ [][NextImport]_vars

\* ------------------------------------------------- properties of the grid

\* No ___ in the first column and no I in the first row.
NoOrphanMarker(m) ==
    /\ \A i \in 1..NRows(m) : m[i][1] # ContinueLeft
    /\ \A j \in 1..NCols(m) : m[1][j] # ContinueUp

\* Every cell is a widget or a marker once the compact notation is expanded.
AllCellsValid(m) ==
    \A i \in 1..NRows(m) : \A j \in 1..NCols(m) : CheckWidgetOk(Converted(m)[i][j])

WellFormed(m) == AllCellsValid(m) /\ NoOrphanMarker(m)

\* Every cell of the matrix lies in exactly one placement rectangle.
TilesExactly ==
    \A r \in 1..NRows(lists) : \A c \in 1..NCols(lists) :
        Cardinality({ n \in 1..Len(layout) : Covers(layout[n], r, c) }) = 1

CellsOf(w) ==
    { rc \in (1..Len(step1)) \X (1..Len(step1[1])) : step1[rc[1]][rc[2]] = w }

IsRectangle(S) ==
    \E r1, r2 \in { rc[1] : rc \in S } : \E c1, c2 \in { rc[2] : rc \in S } :
        S = (r1..r2) \X (c1..c2)

AllRegionsRectangular ==
    \A r \in 1..Len(step1) : \A c \in 1..Len(step1[1]) :
        IsRectangle(CellsOf(step1[r][c]))

\* No widget built by the caller is given in two cells: a control occupies
\* several cells through continuation markers only.
NoRepeatedWidget(m) ==
    \A i, r \in 1..NRows(m) : \A j, c \in 1..NCols(m) :
        (IsWidget(m[i][j]) /\ m[i][j] = m[r][c]) => (i = r /\ j = c)

C2_OrphanMarkerRaisesContinuationError ==
    (pc # "new" /\ AllCellsValid(lists) /\ ~NoOrphanMarker(lists))
        => (pc = "failed" /\ err = "ContinuationError")

\* The control of cell (r, c) is followed by exactly k ___ markers in its
\* row and occupies no other cell.
RowRun(r, c, k) ==
    /\ lists[r][c] \notin {ContinueLeft, ContinueUp}
    /\ c + k <= NCols(lists)
    /\ \A d \in 1..k : lists[r][c + d] = ContinueLeft
    /\ CellsOf(step1[r][c]) = {r} \X (c..(c + k))

\* The control of cell (r, c) is followed by exactly k I markers in its
\* column and occupies no other cell.
ColRun(r, c, k) ==
    /\ lists[r][c] \notin {ContinueLeft, ContinueUp}
    /\ r + k <= NRows(lists)
    /\ \A d \in 1..k : lists[r + d][c] = ContinueUp
    /\ CellsOf(step1[r][c]) = (r..(r + k)) \X {c}

PlacementsOf(w) == { n \in 1..Len(layout) : layout[n].w = w }

\* No layout item has its origin at cell (r, c).
NoOriginAt(r, c) == \A n \in 1..Len(layout) : ~(layout[n].row = r /\ layout[n].col = c)

\* C3: a control followed by k >= 1 ___ markers in its row (and nowhere
\* else) has exactly one placement, at its own cell, k+1 columns wide and one
\* row high; with k >= 1 I markers in its column, k+1 rows high and one
\* column wide.  No placement starts at a marker cell.
C3_RunOfMarkersIsOneSpan ==
    pc = "built" =>
        \A r \in 1..NRows(lists) : \A c \in 1..NCols(lists) : \A k \in 1..MaxCells :
            /\ RowRun(r, c, k) =>
                 /\ \A d \in 1..k : NoOriginAt(r, c + d)
                 /\ \E n \in 1..Len(layout) :
                    /\ PlacementsOf(step1[r][c]) = {n}
                    /\ layout[n] = [w |-> step1[r][c], row |-> r, col |-> c,
                                    rowspan |-> 1, colspan |-> k + 1]
            /\ ColRun(r, c, k) =>
                 /\ \A d \in 1..k : NoOriginAt(r + d, c)
                 /\ \E n \in 1..Len(layout) :
                    /\ PlacementsOf(step1[r][c]) = {n}
                    /\ layout[n] = [w |-> step1[r][c], row |-> r, col |-> c,
                                    rowspan |-> k + 1, colspan |-> 1]

\* A built grid with a horizontal run of two markers beside another control.
C3_Witness ==
    /\ pc = "built"
    /\ \E r \in 1..NRows(lists) : \E c \in 1..NCols(lists) : RowRun(r, c, 2)
    /\ Len(layout) >= 2

RECURSIVE Underscores(_)
Underscores(n) == IF n = 0 THEN <<>> ELSE Append(Underscores(n - 1), "_")

EarlierKeys(n) == { widgets[m].name : m \in 1..(n - 1) }

Values(d) == { d[n].value : n \in 1..Len(d) }

\* C4: after construction every placed control is registered under exactly
\* one identifier, no identifier is registered twice, and the identifier of
\* a control is its normalized text followed by the smallest number of '_'
\* that was unused when it was registered.
C4_RegistryIsBijection ==
    pc = "built" =>
        /\ Values(widgets) = Placed
        /\ \A n, m \in 1..Len(widgets) :
              (widgets[n].name = widgets[m].name \/ widgets[n].value = widgets[m].value)
                  => n = m
        /\ \A n \in 1..Len(widgets) :
              \E u \in 0..Len(widgets) :
                 /\ widgets[n].name = Normalize(widgets[n].value.text) \o Underscores(u)
                 /\ \A v \in 0..(u - 1) :
                       Normalize(widgets[n].value.text) \o Underscores(v) \in EarlierKeys(n)
                 /\ widgets[n].name \notin EarlierKeys(n)

\* Three controls whose text normalizes to OK: OK, OK_ and OK__ are taken.
C4_Witness ==
    /\ pc = "built"
    /\ \E n \in 1..Len(widgets) :
          /\ Normalize(widgets[n].value.text) = Str_OK
          /\ widgets[n].name = Str_OK \o Underscores(2)

\* C5: no control is registered under the empty identifier.
C5_NoEmptyIdentifier ==
    pc = "built" => Empty \notin Keys(widgets)

\* Length of the run of cells holding element in column j from row i down.
RECURSIVE RunDown(_, _, _, _)
RunDown(s, i, j, element) ==
    IF i > Len(s) \/ s[i][j] # element THEN 0
    ELSE 1 + RunDown(s, i + 1, j, element)

\* Length of the run of cells holding element in row i from column j right.
RECURSIVE RunRight(_, _, _, _)
RunRight(s, i, j, element) ==
    IF j > Len(s[i]) \/ s[i][j] # element THEN 0
    ELSE 1 + RunRight(s, i, j + 1, element)

\* C10: the spans of every placement are the lengths of the contiguous runs
\* of its control that start at its origin.
C10_SpansAreContiguousRuns ==
    pc = "built" =>
        \A n \in 1..Len(layout) :
            /\ layout[n].rowspan = RunDown(step1, layout[n].row, layout[n].col, layout[n].w)
            /\ layout[n].colspan = RunRight(step1, layout[n].row, layout[n].col, layout[n].w)


\* ------------------------------------------- properties of names()

\* The widgets whose placement rectangle holds cell (r, c).
Covering(r, c) == { layout[n].w : n \in { k \in 1..Len(layout) : Covers(layout[k], r, c) } }

NamesCompleted == call.op = "names" /\ call.err = ""

\* Cell (r, c) of m holds an alias string that no other cell of m holds.
UniqueAlias(m, r, c) ==
    /\ m[r][c] \notin Specials
    /\ \A i \in 1..NRows(m) : \A j \in 1..NCols(m) :
          m[i][j] = m[r][c] => (i = r /\ j = c)

\* C6 as stated: after names(m) completes, the alias of a cell looks up the
\* control placed over the cell, and the identifier of that control still
\* looks up the same control.
C6_AliasRoundTrip ==
    NamesCompleted =>
        \A r \in 1..NRows(lists) : \A c \in 1..NCols(lists) :
            UniqueAlias(call.arg, r, c) =>
                /\ GetAttr(call.arg[r][c].text) \in Covering(r, c)
                /\ GetAttr(NameOf(GetAttr(call.arg[r][c].text)))
                       = GetAttr(call.arg[r][c].text)

\* The identifier is not in use as an alias that points to another identifier.
NotShadowed(id) == id \notin Keys(aliases) \/ DictGet(aliases, id) = id

\* C6 amended: after names(m) completes, the alias of a cell looks up the
\* control placed over the cell; the identifier of that control looks up
\* the same control unless the identifier is itself an alias of another
\* identifier.
C6_AliasRoundTripUnlessShadowed ==
    NamesCompleted =>
        \A r \in 1..NRows(lists) : \A c \in 1..NCols(lists) :
            UniqueAlias(call.arg, r, c) =>
                /\ GetAttr(call.arg[r][c].text) \in Covering(r, c)
                /\ NotShadowed(NameOf(GetAttr(call.arg[r][c].text))) =>
                      GetAttr(NameOf(GetAttr(call.arg[r][c].text)))
                          = GetAttr(call.arg[r][c].text)

\* names() gave a control an alias spelled like the identifier of another
\* control, and the identifier of the aliased control is not shadowed.
C6_Witness ==
    /\ NamesCompleted
    /\ \E r \in 1..NRows(lists) : \E c \in 1..NCols(lists) :
          /\ UniqueAlias(call.arg, r, c)
          /\ call.arg[r][c].text \in Keys(widgets)
          /\ DictGet(widgets, call.arg[r][c].text) \notin Covering(r, c)
          /\ NotShadowed(NameOf(GetAttr(call.arg[r][c].text)))

\* ------------------------------------------ properties of import_into()

\* C7: import_into on a target that has an attribute named like an
\* identifier or an alias fails and leaves the target as it was.
C7_ImportAllOrNothing ==
    (call.op = "import_into"
        /\ Keys(call.arg) \cap (Keys(widgets) \cup Keys(aliases)) # {})
        => (call.err = "Exception" /\ obj = call.arg)

\* C8: after a successful import_into every identifier and every alias is
\* an attribute of the target whose value is the control the name looks up.
C8_ImportedNamesAreControls ==
    (call.op = "import_into" /\ call.err = "") =>
        \A k \in Keys(widgets) \cup Keys(aliases) :
            k \in Keys(obj) /\ DictGet(obj, k) = GetAttr(k)

\* ------------------------------------------- properties of events()

IsPrefix(a, b) == Len(a) <= Len(b) /\ \A n \in 1..Len(a) : a[n] = b[n]

\* The cells of m that are no markers, in row-major order.
SlotCells(m) ==
    LET nc == NCols(m)
        all == [n \in 1..(NRows(m) * nc) |-> <<RowOf(n, nc), ColOf(n, nc)>>]
    IN  SelectSeq(all, LAMBDA rc : m[rc[1]][rc[2]] \notin Specials)

\* The step is a call of events() that raised nothing.
EventsStep ==
    /\ call'.op = "events" /\ call'.err = ""
    /\ (conns' # conns \/ call.op # "events" \/ call.arg # call'.arg)

\* C9: every step keeps the connections made so far, in place; a call of
\* events() adds after them exactly one connection for every cell that is
\* no marker, to the default signal of a control placed over the cell; and
\* one emission calls a callback once for every connection of it.
C9_EventsAreAdditive ==
    [][ /\ IsPrefix(conns, conns')
        /\ EventsStep =>
             LET cells == SlotCells(call'.arg) IN
             /\ Len(conns') = Len(conns) + Len(cells)
             /\ \A n \in 1..Len(cells) :
                   LET cn == conns'[Len(conns) + n] IN
                   /\ cn.slot = call'.arg[cells[n][1]][cells[n][2]]
                   /\ cn.w \in Covering(cells[n][1], cells[n][2])
                   /\ cn.signal = DefaultSignal(cn.w.cls)
        /\ call'.op = "fire" =>
             \A slot \in {Func_f, Method_m} :
                Len(SelectSeq(call'.ret, LAMBDA x : x.slot = slot))
                  = Len(SelectSeq(conns', LAMBDA x : x.slot = slot /\ x.w = call'.arg[1][1]))
      ]_vars

\* A callback bound twice to one control was called twice by one emission.
C9_Witness ==
    /\ call.op = "fire"
    /\ \E slot \in {Func_f, Method_m} :
          Len(SelectSeq(call.ret, LAMBDA x : x.slot = slot)) = 2

====
